---- MODULE Spec2Model ----
(***************************************************************************)
(* Model of daybed's request validators (daybed/schemas/validators.py and  *)
(* the older daybed/validators.py): schemas built with colander, the       *)
(* translation of colander's Invalid tree into cornice errors, and the     *)
(* cornice validators definition_validator, record_validator,              *)
(* policy_validator and model_validator.                                   *)
(***************************************************************************)
EXTENDS Integers, Sequences, FiniteSets, TLC

VARIABLES
    call,        \* the invocation: entry point and its inputs
    pc,          \* "start" before the entry point runs, "done" after
    errors,      \* request.errors: sequence of [location, field, message]
    status,      \* request.errors.status: "unset" or "404"
    data_clean,  \* request.data_clean: Unset or the clean document
    validated,   \* request.validated: mapping key -> value
    fault,       \* "none", or the exception that left the entry point
    heap,        \* the Definition object the call works on (mutable)
    schema_built \* the schema RecordValidator(heap) returned last, or Unset

vars == <<call, pc, errors, status, data_clean, validated, fault, heap, schema_built>>

(***************************************************************************)
(* JSON values (cstructs) and deserialized values (appstructs), tagged.    *)
(* Text is a sequence of tokens (single characters where the characters   *)
(* are looked at, whole words elsewhere); mapping keys are strings.        *)
(***************************************************************************)
None == [t |-> "null"]
VBool(b) == [t |-> "bool", b |-> b]
VInt(n) == [t |-> "int", i |-> n]
VFloat(tenths) == [t |-> "float", tenths |-> tenths]
VStr(s) == [t |-> "str", s |-> s]
VList(l) == [t |-> "list", l |-> l]
VMap(m) == [t |-> "map", m |-> m]
VDate(y, mo, d) == [t |-> "date", y |-> y, mo |-> mo, d |-> d]
VDateTime(y, mo, d, h, mi, s, us) ==
    [t |-> "datetime", y |-> y, mo |-> mo, d |-> d, h |-> h, mi |-> mi,
     s |-> s, us |-> us]
null == [t |-> "colander.null"]
Unset == [t |-> "unset"]
EmptyMap == VMap(<<>>)

Keys(v) == DOMAIN v.m
Get(v, k, default) == IF k \in DOMAIN v.m THEN v.m[k] ELSE default

\* the text of a string value as one string
RECURSIVE Concat(_)
Concat(s) == IF Len(s) = 0 THEN "" ELSE Head(s) \o Concat(Tail(s))
TextOf(v) == Concat(v.s)

\* Python truthiness: `not v`
Falsy(v) ==
    CASE v.t = "null" -> TRUE
      [] v.t = "colander.null" -> TRUE
      [] v.t = "bool" -> ~v.b
      [] v.t = "int" -> v.i = 0
      [] v.t = "float" -> v.tenths = 0
      [] v.t = "str" -> Len(v.s) = 0
      [] v.t = "list" -> Len(v.l) = 0
      [] v.t = "map" -> DOMAIN v.m = {}
      [] OTHER -> FALSE

\* Python `v != 0`
NotEqualZero(v) ==
    CASE v.t = "bool" -> v.b
      [] v.t = "int" -> v.i # 0
      [] v.t = "float" -> v.tenths # 0
      [] OTHER -> TRUE

Digits == <<"0", "1", "2", "3", "4", "5", "6", "7", "8", "9">>
DigitVal(c) == (CHOOSE i \in 1..10 : Digits[i] = c) - 1
IsDigit(c) == \E i \in 1..10 : Digits[i] = c

RECURSIVE DigitsOf(_)
DigitsOf(n) == IF n < 10 THEN <<Digits[n + 1]>>
               ELSE DigitsOf(n \div 10) \o <<Digits[(n % 10) + 1]>>

\* "%0<width>d" % n
RECURSIVE Pad(_, _)
Pad(n, width) == IF width = 0 THEN <<>>
                 ELSE Pad(n \div 10, width - 1) \o <<Digits[(n % 10) + 1]>>

\* str(n) for an int
IntText(n) == IF n < 0 THEN <<"-">> \o DigitsOf(-n) ELSE DigitsOf(n)

RECURSIVE DigitsValue(_, _)
DigitsValue(s, acc) == IF Len(s) = 0 THEN acc
                       ELSE DigitsValue(Tail(s), acc * 10 + DigitVal(Head(s)))

\* Python int(v): [ok, val]; ok = FALSE stands for ValueError / TypeError
FailedConversion == [ok |-> FALSE, val |-> 0]
python_int(v) ==
    CASE v.t = "int" -> [ok |-> TRUE, val |-> v.i]
      [] v.t = "bool" -> [ok |-> TRUE, val |-> IF v.b THEN 1 ELSE 0]
      [] v.t = "float" ->
            [ok |-> TRUE,
             val |-> IF v.tenths < 0 THEN -((-v.tenths) \div 10)
                     ELSE v.tenths \div 10]
      [] v.t = "str" ->
            LET body == IF Len(v.s) > 0 /\ Head(v.s) \in {"-", "+"}
                        THEN Tail(v.s) ELSE v.s
                neg == Len(v.s) > 0 /\ Head(v.s) = "-"
            IN  IF Len(body) > 0 /\ \A i \in 1..Len(body) : IsDigit(body[i])
                THEN [ok |-> TRUE,
                      val |-> IF neg THEN -DigitsValue(body, 0)
                              ELSE DigitsValue(body, 0)]
                ELSE FailedConversion
      [] OTHER -> FailedConversion

\* six.text_type(v) for the scalars a String node can be handed
text_type(v) ==
    CASE v.t = "str" -> v
      [] v.t = "int" -> VStr(IntText(v.i))
      [] v.t = "bool" -> VStr(IF v.b THEN <<"T", "r", "u", "e">>
                             ELSE <<"F", "a", "l", "s", "e">>)

(***************************************************************************)
(* colander, as the validators use it.  A schema node is                   *)
(* [typ, name, unknown, children, validator]; deserialization returns      *)
(* [ok |-> TRUE, val] or [ok |-> FALSE, exc], exc an Invalid               *)
(* [key, msg, children] (key: the node's _keyname(), msg "" for None).     *)
(***************************************************************************)
NoValidator == [kind |-> "none", min |-> 0, max |-> 0]
Length(min) == [kind |-> "Length", min |-> min, max |-> 0]
Range(min, max) == [kind |-> "Range", min |-> min, max |-> max]

SchemaNode(typ, name, unknown, children, validator) ==
    [typ |-> typ, name |-> name, unknown |-> unknown, children |-> children,
     validator |-> validator]
Leaf(typ, name) == SchemaNode(typ, name, "", <<>>, NoValidator)

Ok(v) == [ok |-> TRUE, val |-> v]
Invalid(key, msg, children) == [key |-> key, msg |-> msg, children |-> children]
Raise(exc) == [ok |-> FALSE, exc |-> exc]

PosText == <<"0", "1", "2", "3", "4", "5">>
\* Invalid.add(exc, pos) under a positional (Sequence) parent: _keyname() is str(pos)
AtPos(exc, pos) == [exc EXCEPT !.key = PosText[pos + 1]]

\* String.deserialize
String_deserialize(node, cstruct) ==
    IF cstruct = null \/ Falsy(cstruct) THEN Ok(null)
    ELSE Ok(text_type(cstruct))

\* Integer.deserialize (Number.deserialize with num = int)
Int_deserialize(node, cstruct) ==
    IF cstruct = null THEN Ok(null)
    ELSE IF NotEqualZero(cstruct) /\ Falsy(cstruct) THEN Ok(null)
    ELSE IF python_int(cstruct).ok THEN Ok(VInt(python_int(cstruct).val))
    ELSE Raise(Invalid(node.name, "is not a number", <<>>))

\* the node's validator, run on a non-null appstruct
RunValidator(node, appstruct) ==
    CASE node.validator.kind = "none" -> Ok(appstruct)
      [] node.validator.kind = "Length" ->
            IF Len(appstruct.l) < node.validator.min
            THEN Raise(Invalid(node.name, "Shorter than minimum length", <<>>))
            ELSE Ok(appstruct)
      [] node.validator.kind = "Range" ->
            IF appstruct.i < node.validator.min
            THEN Raise(Invalid(node.name, "is less than minimum value", <<>>))
            ELSE IF appstruct.i > node.validator.max
            THEN Raise(Invalid(node.name, "is greater than maximum value", <<>>))
            ELSE Ok(appstruct)

\* a mapping restricted to / without some keys
Without(m, ks) == [k \in (DOMAIN m) \ ks |-> m[k]]
Put(m, k, v) == [x \in (DOMAIN m) \cup {k} |-> IF x = k THEN v ELSE m[x]]
Update(m, other) ==
    [x \in (DOMAIN m) \cup (DOMAIN other) |->
        IF x \in DOMAIN other THEN other[x] ELSE m[x]]

RECURSIVE SchemaNode_deserialize(_, _)
RECURSIVE Mapping_impl(_, _, _, _, _)
RECURSIVE Sequence_impl(_, _, _, _, _)
RECURSIVE TypeFieldNode_deserialize(_, _)

\* Mapping._impl: the loop over node.children from child `num` on, then the
\* handling of the unknown keys left in `value`
Mapping_impl(node, value, num, result, errs) ==
    IF num <= Len(node.children)
    THEN LET subnode == node.children[num]
             subval == IF subnode.name \in DOMAIN value
                       THEN value[subnode.name] ELSE null
             r == SchemaNode_deserialize(subnode, subval)
             rest == Without(value, {subnode.name})
         IN  IF r.ok
             THEN Mapping_impl(node, rest, num + 1,
                               Put(result, subnode.name, r.val), errs)
             ELSE Mapping_impl(node, rest, num + 1, result,
                               Append(errs, r.exc))
    ELSE IF node.unknown = "raise" /\ DOMAIN value # {}
    THEN Raise(Invalid(node.name, "Unrecognized keys in mapping", <<>>))
    ELSE IF Len(errs) > 0 THEN Raise(Invalid(node.name, "", errs))
    ELSE IF node.unknown = "preserve" THEN Ok(VMap(Update(result, value)))
    ELSE Ok(VMap(result))

\* Mapping.deserialize
Mapping_deserialize(node, cstruct) ==
    IF cstruct = null THEN Ok(null)
    ELSE IF cstruct.t # "map"
    THEN Raise(Invalid(node.name, "is not a mapping type", <<>>))
    ELSE Mapping_impl(node, cstruct.m, 1, <<>>, <<>>)

\* Sequence._impl: the loop over the elements from index `num` (0-based) on
Sequence_impl(node, value, num, result, errs) ==
    IF num < Len(value)
    THEN LET r == SchemaNode_deserialize(node.children[1], value[num + 1])
         IN  IF r.ok
             THEN Sequence_impl(node, value, num + 1, Append(result, r.val), errs)
             ELSE Sequence_impl(node, value, num + 1, result,
                                Append(errs, AtPos(r.exc, num)))
    ELSE IF Len(errs) > 0 THEN Raise(Invalid(node.name, "", errs))
    ELSE Ok(VList(result))

\* Sequence.deserialize (accept_scalar is False)
Sequence_deserialize(node, cstruct) ==
    IF cstruct = null THEN Ok(null)
    ELSE IF cstruct.t # "list"
    THEN Raise(Invalid(node.name, "is not iterable", <<>>))
    ELSE Sequence_impl(node, cstruct.l, 0, <<>>, <<>>)

\* the field types the registry knows, and the node it builds for a field
RegisteredTypes == {"int", "string"}
\* registry.validation(fieldtype, **field): [ok, node]; not ok is the
\* registry's unknown-type failure
registry_validation(fieldtype, field) ==
    IF fieldtype.t = "str" /\ TextOf(fieldtype) \in RegisteredTypes
       /\ "name" \in DOMAIN field /\ field["name"].t = "str"
    THEN [ok |-> TRUE,
          node |-> Leaf(IF TextOf(fieldtype) = "int" THEN "Int" ELSE "String",
                        TextOf(field["name"]))]
    ELSE [ok |-> FALSE, node |-> Leaf("String", "")]

\* TypeFieldNode.deserialize: a field descriptor is a mapping with a name
\* and a registered type; its own violations hang under the element
TypeFieldNode_deserialize(node, cstruct) ==
    IF cstruct = null THEN Ok(null)
    ELSE IF cstruct.t # "map"
    THEN Raise(Invalid(node.name, "is not a mapping type", <<>>))
    ELSE IF ~("type" \in DOMAIN cstruct.m
              /\ cstruct.m["type"].t = "str"
              /\ TextOf(cstruct.m["type"]) \in RegisteredTypes)
    THEN Raise(Invalid(node.name, "Invalid type", <<>>))
    ELSE SchemaNode_deserialize(
             SchemaNode("Mapping", node.name, "preserve",
                        <<Leaf("String", "name"), Leaf("String", "type")>>,
                        NoValidator),
             cstruct)

\* SchemaNode.deserialize: the type's deserialize, `missing` (always
\* `required` here), then the validator
SchemaNode_deserialize(node, cstruct) ==
    LET r == CASE node.typ = "Mapping" -> Mapping_deserialize(node, cstruct)
               [] node.typ = "Sequence" -> Sequence_deserialize(node, cstruct)
               [] node.typ = "String" -> String_deserialize(node, cstruct)
               [] node.typ = "Int" -> Int_deserialize(node, cstruct)
               [] node.typ = "TypeFieldNode" ->
                      TypeFieldNode_deserialize(node, cstruct)
    IN  IF ~r.ok THEN r
        ELSE IF r.val = null THEN Raise(Invalid(node.name, "Required", <<>>))
        ELSE RunValidator(node, r.val)

\* Invalid.asdict(): one (dotted path, joined messages) pair per leaf of the
\* tree, in traversal order; `keys` and `msgs` come from the ancestors
RECURSIVE asdict_from(_, _, _)
RECURSIVE asdict_children(_, _, _, _)
JoinKey(keys, key) == IF key = "" THEN keys
                      ELSE IF keys = "" THEN key ELSE keys \o "." \o key
JoinMsg(msgs, msg) == IF msg = "" THEN msgs
                      ELSE IF msgs = "" THEN msg ELSE msgs \o "; " \o msg
asdict_children(children, i, keys, msgs) ==
    IF i > Len(children) THEN <<>>
    ELSE asdict_from(children[i], keys, msgs)
         \o asdict_children(children, i + 1, keys, msgs)
asdict_from(exc, keys, msgs) ==
    LET k == JoinKey(keys, exc.key)
        m == JoinMsg(msgs, exc.msg)
    IN  IF Len(exc.children) = 0 THEN <<[field |-> k, message |-> m]>>
        ELSE asdict_children(exc.children, 1, k, m)
asdict(exc) == asdict_from(exc, "", "")


(***************************************************************************)
(* The schemas of daybed/schemas/validators.py.                            *)
(***************************************************************************)
DefinitionValidator ==
    SchemaNode("Mapping", "", "ignore",
               <<Leaf("String", "title"),
                 Leaf("String", "description"),
                 SchemaNode("Sequence", "fields", "",
                            <<Leaf("TypeFieldNode", "")>>, Length(1))>>,
               NoValidator)

\* the roles schema with colander's default Mapping(), which drops unknown keys
RolesValidator_ignore ==
    SchemaNode("Mapping", "", "ignore",
               <<SchemaNode("Sequence", "admins", "",
                            <<Leaf("String", "")>>, Length(1))>>,
               NoValidator)

RolesValidator ==
    SchemaNode("Mapping", "", "preserve",
               <<SchemaNode("Sequence", "admins", "",
                            <<Leaf("String", "")>>, Length(1))>>,
               NoValidator)

\* the keys of a dict in iteration order
RECURSIVE iterkeys(_)
iterkeys(ks) == IF ks = {} THEN <<>>
                ELSE LET k == CHOOSE x \in ks : TRUE
                     IN  <<k>> \o iterkeys(ks \ {k})

PolicyMax == 65535
\* the policy field with an exclusive upper bound
PolicyNode_exclusive(key) ==
    SchemaNode("Int", key, "", <<>>, Range(0, PolicyMax - 1))
PolicyNode(key) == SchemaNode("Int", key, "", <<>>, Range(0, PolicyMax))
PolicyValidator(policy) ==
    LET ks == iterkeys(Keys(policy))
    IN  SchemaNode("Mapping", "", "preserve",
                   [i \in 1..Len(ks) |-> PolicyNode(ks[i])], NoValidator)

\* RecordValidator.__init__: [fault, schema, definition]; `definition` is the
\* caller's object as the constructor leaves it (field.pop('type') removes
\* the key from each field descriptor it gets to)
\* RecordValidator with Mapping(unknown='preserve'), as the roles and policy
\* schemas have it
RecordMapping_preserve(children) ==
    SchemaNode("Mapping", "", "preserve", children, NoValidator)
RecordMapping(children) ==
    SchemaNode("Mapping", "", "ignore", children, NoValidator)
RECURSIVE RecordValidator_fields(_, _, _)
RecordValidator_fields(fields, i, children) ==
    IF i > Len(fields)
    THEN [fault |-> "none", schema |-> RecordMapping(children), fields |-> fields]
    ELSE LET field == fields[i]
         IN  IF field.t # "map"
             THEN [fault |-> "AttributeError", schema |-> RecordMapping(children),
                   fields |-> fields]
             ELSE IF "type" \notin DOMAIN field.m
             THEN [fault |-> "KeyError", schema |-> RecordMapping(children),
                   fields |-> fields]
             ELSE LET popped == Without(field.m, {"type"})
                      after == [fields EXCEPT ![i] = VMap(popped)]
                      made == registry_validation(field.m["type"], popped)
                  IN  IF ~made.ok
                      THEN [fault |-> "UnknownType",
                            schema |-> RecordMapping(children), fields |-> after]
                      ELSE RecordValidator_fields(after, i + 1,
                                                  Append(children, made.node))
RecordValidator(definition) ==
    IF definition.t # "map"
    THEN [fault |-> "TypeError", schema |-> RecordMapping(<<>>),
          definition |-> definition]
    ELSE IF "fields" \notin Keys(definition)
    THEN [fault |-> "KeyError", schema |-> RecordMapping(<<>>),
          definition |-> definition]
    ELSE IF definition.m["fields"].t # "list"
    THEN [fault |-> "TypeError", schema |-> RecordMapping(<<>>),
          definition |-> definition]
    ELSE LET r == RecordValidator_fields(definition.m["fields"].l, 1, <<>>)
         IN  [fault |-> r.fault, schema |-> r.schema,
              definition |-> VMap(Put(definition.m, "fields", VList(r.fields)))]

(***************************************************************************)
(* post_serialize and validate_against_schema.                             *)
(***************************************************************************)
\* date.isoformat() / datetime.isoformat() of a naive value
isoformat(v) ==
    LET day == Pad(v.y, 4) \o <<"-">> \o Pad(v.mo, 2) \o <<"-">> \o Pad(v.d, 2)
    IN  IF v.t = "date" THEN day
        ELSE day \o <<"T">> \o Pad(v.h, 2) \o <<":">> \o Pad(v.mi, 2)
                 \o <<":">> \o Pad(v.s, 2)
                 \o (IF v.us = 0 THEN <<>> ELSE <<".">> \o Pad(v.us, 6))

\* post_serialize writing the sentinel out as null instead of dropping the key
post_serialize_null(data) ==
    VMap([k \in Keys(data) |->
            IF data.m[k].t \in {"date", "datetime"}
            THEN VStr(isoformat(data.m[k]))
            ELSE IF data.m[k] = null THEN None
            ELSE data.m[k]])

post_serialize(data) ==
    LET kept == {k \in Keys(data) : data.m[k] # null}
    IN  VMap([k \in kept |->
                IF data.m[k].t \in {"date", "datetime"}
                THEN VStr(isoformat(data.m[k]))
                ELSE data.m[k]])

\* the request: what the validators read and write of it
NewRequest == [errors |-> <<>>, status |-> "unset", data_clean |-> Unset,
               validated |-> <<>>, fault |-> "none"]
errors_add(request, location, field, message) ==
    [request EXCEPT !.errors = Append(@, [location |-> location,
                                          field |-> field,
                                          message |-> message])]
Validated(request, key, value) ==
    [request EXCEPT !.validated = Put(@, key, value)]
Fault(request, exc) == [request EXCEPT !.fault = exc]

\* the cornice errors of an Invalid: for each child, each item of its asdict()
\* the translation stopping at the first failing child
ChildErrors_first(children, i) ==
    IF i > Len(children) THEN <<>>
    ELSE LET items == asdict(children[i])
         IN  [j \in 1..Len(items) |->
                 [location |-> "body", field |-> items[j].field,
                  message |-> items[j].message]]
RECURSIVE ChildErrors(_, _)
ChildErrors(children, i) ==
    IF i > Len(children) THEN <<>>
    ELSE LET items == asdict(children[i])
         IN  [j \in 1..Len(items) |->
                 [location |-> "body", field |-> items[j].field,
                  message |-> items[j].message]]
             \o ChildErrors(children, i + 1)

validate_against_schema(request, schema, data) ==
    LET r == SchemaNode_deserialize(schema, data)
    IN  IF r.ok THEN [request EXCEPT !.data_clean = post_serialize(r.val)]
        ELSE [request EXCEPT !.errors = @ \o ChildErrors(r.exc.children, 1)]

\* daybed/validators.py: the older validate_against_schema, without
\* post_serialize
validate_against_schema_old(request, schema, data) ==
    LET r == SchemaNode_deserialize(schema, data)
    IN  IF r.ok THEN [request EXCEPT !.data_clean = r.val]
        ELSE [request EXCEPT !.errors = @ \o ChildErrors(r.exc.children, 1)]


(***************************************************************************)
(* The storage collaborator and the cornice validators.                    *)
(***************************************************************************)
Word(w) == VStr(<<w>>)
FieldDescriptor(name, type) == VMap([k \in {"name", "type"} |->
                                       IF k = "name" THEN Word(name) ELSE Word(type)])
ValidDefinition ==
    VMap([k \in {"title", "description", "fields"} |->
            CASE k = "title" -> Word("people")
              [] k = "description" -> Word("persons")
              [] k = "fields" -> VList(<<FieldDescriptor("age", "int"),
                                         FieldDescriptor("nick", "string")>>)])

\* request.db: the stored model definitions and policies
KnownModels == {"people"}
KnownPolicies == {"read-only"}
default_policy == "read-only"
get_model_definition(model_id) ==
    IF model_id \in KnownModels THEN [found |-> TRUE, definition |-> ValidDefinition]
    ELSE [found |-> FALSE, definition |-> None]
get_policy(policy_id) ==
    policy_id.t = "str" /\ TextOf(policy_id) \in KnownPolicies

\* request.body.decode('utf-8') then json.loads: [ok, doc]; a body is
\* [kind, doc], kind "json" (doc is what it parses to), "empty" or "malformed"
json_loads(body) == IF body.kind = "json" THEN [ok |-> TRUE, doc |-> body.doc]
                    ELSE [ok |-> FALSE, doc |-> None]

validator(request, body, schema) ==
    IF body.kind = "empty" THEN validate_against_schema(request, schema, EmptyMap)
    ELSE IF json_loads(body).ok
    THEN validate_against_schema(request, schema, json_loads(body).doc)
    ELSE errors_add(request, "body", "body", "ValueError")

definition_validator(request, body) == validator(request, body, DefinitionValidator)

\* record_validator without the status hint
record_validator_unset(request, model_id, body) ==
    LET got == get_model_definition(model_id)
        made == RecordValidator(got.definition)
    IN  IF ~got.found
        THEN [request |-> errors_add(request, "path", "modelname", "Unknown model"),
              definition |-> None]
        ELSE IF made.fault # "none"
        THEN [request |-> Fault(request, made.fault),
              definition |-> made.definition]
        ELSE [request |-> validator(request, body, made.schema),
              definition |-> made.definition]

\* [request, definition]: definition is the object the db returned, as the
\* call leaves it
record_validator(request, model_id, body) ==
    LET got == get_model_definition(model_id)
        made == RecordValidator(got.definition)
    IN  IF ~got.found
        THEN [request |-> [errors_add(request, "path", "modelname", "Unknown model")
                             EXCEPT !.status = "404"],
              definition |-> None]
        ELSE IF made.fault # "none"
        THEN [request |-> Fault(request, made.fault),
              definition |-> made.definition]
        ELSE [request |-> validator(request, body, made.schema),
              definition |-> made.definition]

policy_validator(request, body) ==
    LET parsed == json_loads(body)
        policy == parsed.doc
    IN  IF ~parsed.ok THEN Fault(request, "ValueError")
        ELSE IF policy.t # "map" THEN Fault(request, "AttributeError")
        ELSE Validated(validate_against_schema(request, PolicyValidator(policy),
                                               policy),
                       "policy", policy)

\* model_validator, in the order of the code; each step is skipped once an
\* exception has left the function.  [request, definition]: definition is
\* the body's definition object as the call leaves it
RECURSIVE ValidateRecords(_, _, _, _)
ValidateRecords(request, schema, data, i) ==
    IF i > Len(data) THEN request
    ELSE LET checked == validate_against_schema(request, schema, data[i])
             done == checked.validated["data"]
         IN  ValidateRecords(
                 Validated(checked, "data", VList(Append(done.l, data[i]))),
                 schema, data, i + 1)

DefinitionStep(request, body) ==
    LET definition == Get(body, "definition", None)
        checked == IF Falsy(definition)
                   THEN errors_add(request, "body", "definition",
                                   "definition is required")
                   ELSE validate_against_schema(request, DefinitionValidator,
                                                definition)
    IN  Validated(checked, "definition", definition)

DataStep(request, body) ==
    LET definition == Get(body, "definition", None)
        data == Get(body, "data", None)
        started == Validated(request, "data", VList(<<>>))
        made == RecordValidator(definition)
        \* request.validated['definition'] is the object the constructor changed
        aliased == Validated(started, "definition", made.definition)
    IN  IF Falsy(data) THEN started
        ELSE IF made.fault # "none" THEN Fault(aliased, made.fault)
        ELSE IF data.t # "list" THEN Fault(aliased, "TypeError")
        ELSE ValidateRecords(aliased, made.schema, data.l, 1)

RolesStep(request, body, user) ==
    LET default_roles ==
            VMap([k \in {"admins"} |->
                    VList(<<IF user # "" THEN Word(user)
                            ELSE Word("system.Everyone")>>)])
        roles == Get(body, "roles", default_roles)
    IN  Validated(validate_against_schema(request, RolesValidator, roles),
                  "roles", roles)

PolicyStep(request, body) ==
    LET policy_id == Get(body, "policy_id", Word(default_policy))
        checked == IF get_policy(policy_id) THEN request
                   ELSE errors_add(request, "body", "policy_id",
                                   "policy doesn't exist")
    IN  Validated(checked, "policy_id", policy_id)

\* the four checks on a parsed mapping body; each value is computed once
ModelSteps(request, doc, user) ==
    {IF s2.fault # "none" THEN s2
     ELSE PolicyStep(RolesStep(s2, doc, user), doc) :
        s2 \in {DataStep(s1, doc) : s1 \in {DefinitionStep(request, doc)}}}

model_validator(request, body, user) ==
    IF ~json_loads(body).ok
    THEN errors_add(request, "body", "json value error", "body malformed")
    ELSE IF json_loads(body).doc.t # "map" THEN Fault(request, "AttributeError")
    ELSE CHOOSE r \in ModelSteps(request, json_loads(body).doc, user) : TRUE

(***************************************************************************)
(* Bounded inputs.                                                         *)
(***************************************************************************)
MaxAdmins == 2      \* longest admins sequence
MaxFields == 2      \* longest fields sequence of a submitted definition

SeqsUpTo(S, n) == UNION {[1..k -> S] : k \in 0..n}
\* the mappings with any subset of the keys of `choices`, each key with one
\* of its values
MapsOver(choices) ==
    UNION {{VMap(f) : f \in {g \in [D -> UNION {choices[k] : k \in DOMAIN choices}] :
                               \A k \in D : g[k] \in choices[k]}} :
           D \in SUBSET DOMAIN choices}

NonMaps == {None, VInt(5), VList(<<>>), Word("abc")}

NameOnly == VMap([k \in {"name"} |-> Word("age")])
Descriptors == {FieldDescriptor("age", "int"), FieldDescriptor("nick", "string"),
                FieldDescriptor("x", "bogus"), NameOnly, VInt(3)}
DefinitionDocs ==
    MapsOver([k \in {"title", "description", "fields"} |->
                CASE k = "title" -> {Word("people"), VStr(<<>>)}
                  [] k = "description" -> {Word("persons")}
                  [] k = "fields" ->
                        {VList(l) : l \in SeqsUpTo(Descriptors, MaxFields)}
                        \cup {VInt(3)}])

AdminVals == {Word("bob"), VStr(<<>>), VInt(7)}
RolesDocs ==
    MapsOver([k \in {"admins", "extra_key"} |->
                IF k = "admins"
                THEN {VList(l) : l \in SeqsUpTo(AdminVals, MaxAdmins)}
                     \cup {None, VInt(5)}
                ELSE {VBool(TRUE)}])

PolicyVals == {VInt(0), VInt(1), VInt(65535), VInt(65536), VInt(999999),
               VInt(-1), VStr(<<"1", "2">>), VStr(<<"-", "1">>), Word("abc"),
               VStr(<<>>), None, VBool(TRUE), VFloat(35), VFloat(655359),
               VList(<<>>), VList(<<VInt(1)>>)}
PolicyDocs == MapsOver([k \in {"read", "write"} |-> PolicyVals])

OneFieldDefinition ==
    VMap(Put(ValidDefinition.m, "fields", VList(<<FieldDescriptor("age", "int")>>)))
RecordDefinitions == {ValidDefinition, OneFieldDefinition}
RecordDocs ==
    MapsOver([k \in {"age", "nick", "extra"} |->
                CASE k = "age" -> {VInt(5), Word("x"), VStr(<<"1", "2">>), None}
                  [] k = "nick" -> {Word("bob"), VStr(<<>>)}
                  [] k = "extra" -> {VInt(1)}])

\* Definition objects a caller may hand to RecordValidator
DefinitionObjects ==
    RecordDefinitions
    \cup {VMap(Put(ValidDefinition.m, "fields",
                   VList(<<FieldDescriptor("age", "int"),
                           FieldDescriptor("x", "bogus")>>))),
          VMap(Put(ValidDefinition.m, "fields", VList(<<NameOnly>>))),
          VMap(Without(ValidDefinition.m, {"fields"})), None}

\* deserialized documents, as a schema with date fields hands them over
Appstructs ==
    MapsOver([k \in {"when", "age", "nick"} |->
                CASE k = "when" -> {VDate(2014, 3, 9), VDate(987, 12, 31),
                                    VDateTime(2014, 3, 9, 7, 5, 0, 0),
                                    VDateTime(2014, 12, 31, 23, 59, 59, 4200),
                                    null}
                  [] k = "age" -> {VInt(5), null}
                  [] k = "nick" -> {Word("bob"), None, null}])

Malformed == [kind |-> "malformed", doc |-> None]
EmptyBody == [kind |-> "empty", doc |-> None]
Json(doc) == [kind |-> "json", doc |-> doc]
BadBodies == {Malformed, EmptyBody}

ModelBodies ==
    MapsOver([k \in {"definition", "data", "roles", "policy_id"} |->
                CASE k = "definition" ->
                        {ValidDefinition,
                         VMap(Without(ValidDefinition.m, {"title"})),
                         VMap(Put(ValidDefinition.m, "fields",
                                  VList(<<FieldDescriptor("x", "bogus")>>))),
                         VMap(Without(ValidDefinition.m, {"fields"})),
                         Word("abc")}
                  [] k = "data" ->
                        {VList(<<>>),
                         VList(<<VMap([f \in {"age", "nick"} |->
                                         IF f = "age" THEN VInt(5) ELSE Word("bob")])>>),
                         VList(<<VMap([f \in {"age"} |-> Word("x")]),
                                 VMap([f \in {"age", "nick", "extra"} |->
                                         IF f = "nick" THEN Word("bob") ELSE VInt(5)])>>),
                         VList(<<VInt(5)>>)}
                  [] k = "roles" ->
                        {VMap([f \in {"admins"} |-> VList(<<Word("bob")>>)]),
                         VMap([f \in {"admins"} |-> VList(<<>>)]),
                         VMap([f \in {"admins", "extra_key"} |->
                                 IF f = "admins" THEN VList(<<Word("bob")>>)
                                 ELSE VBool(TRUE)]),
                         EmptyMap, Word("abc")}
                  [] k = "policy_id" -> {Word("read-only"), Word("nope")}])
    \cup {VList(<<>>)}

Users == {"", "alice"}    \* "" : request.user is None
ModelIds == {"people", "nope"}

(***************************************************************************)
(* The state machine: one call of one entry point on a fresh request.      *)
(***************************************************************************)
Call(op, body, model_id, user, schema, data) ==
    [op |-> op, body |-> body, model_id |-> model_id, user |-> user,
     schema |-> schema, data |-> data]
NoSchema == Leaf("", "")

SchemaCalls(op) ==
    {Call(op, EmptyBody, "", "", DefinitionValidator, d) :
        d \in DefinitionDocs \cup NonMaps}
    \cup {Call(op, EmptyBody, "", "", RolesValidator, d) :
            d \in RolesDocs \cup NonMaps}
    \cup {Call(op, EmptyBody, "", "", PolicyValidator(d), d) : d \in PolicyDocs}
    \cup {Call(op, EmptyBody, "", "", RecordValidator(def).schema, d) :
            def \in RecordDefinitions, d \in RecordDocs \cup NonMaps}

Calls ==
    {Call("definition_validator", b, "", "", NoSchema, None) :
        b \in BadBodies \cup {Json(d) : d \in DefinitionDocs \cup NonMaps}}
    \cup {Call("record_validator", b, m, "", NoSchema, None) :
            b \in BadBodies \cup {Json(d) : d \in RecordDocs \cup NonMaps},
            m \in ModelIds}
    \cup {Call("policy_validator", b, "", "", NoSchema, None) :
            b \in BadBodies \cup {Json(d) : d \in PolicyDocs \cup NonMaps}}
    \cup {Call("model_validator", b, "", u, NoSchema, None) :
            b \in BadBodies \cup {Json(d) : d \in ModelBodies}, u \in Users}
    \cup SchemaCalls("validate_against_schema")
    \cup SchemaCalls("validate_against_schema_old")
    \cup {Call("post_serialize", EmptyBody, "", "", NoSchema, d) : d \in Appstructs}
    \cup {Call("RecordValidator", EmptyBody, "", "", NoSchema, d) :
            d \in DefinitionObjects}

Init ==
    /\ call \in Calls
    /\ pc = "start"
    /\ errors = <<>>
    /\ status = "unset"
    /\ data_clean = Unset
    /\ validated = <<>>
    /\ fault = "none"
    /\ heap = (IF call.op = "RecordValidator" THEN call.data ELSE None)
    /\ schema_built = Unset

\* the request as the variables hold it
Request == [errors |-> errors, status |-> status, data_clean |-> data_clean,
            validated |-> validated, fault |-> fault]
Return(request) ==
    /\ errors' = request.errors
    /\ status' = request.status
    /\ data_clean' = request.data_clean
    /\ validated' = request.validated
    /\ fault' = request.fault
    /\ pc' = "done"
    /\ UNCHANGED call

DefinitionValidatorCall ==
    /\ pc = "start" /\ call.op = "definition_validator"
    /\ \E r \in {definition_validator(Request, call.body)} : Return(r)
    /\ UNCHANGED <<heap, schema_built>>

RecordValidatorCall ==
    /\ pc = "start" /\ call.op = "record_validator"
    /\ \E r \in {record_validator(Request, call.model_id, call.body)} :
           Return(r.request) /\ heap' = r.definition
    /\ UNCHANGED schema_built

PolicyValidatorCall ==
    /\ pc = "start" /\ call.op = "policy_validator"
    /\ \E r \in {policy_validator(Request, call.body)} : Return(r)
    /\ UNCHANGED <<heap, schema_built>>

ModelValidatorCall ==
    /\ pc = "start" /\ call.op = "model_validator"
    /\ \E r \in {model_validator(Request, call.body, call.user)} :
           /\ Return(r)
           /\ heap' = IF "definition" \in DOMAIN r.validated
                      THEN r.validated["definition"] ELSE None
    /\ UNCHANGED schema_built

ValidateAgainstSchema ==
    /\ pc = "start" /\ call.op = "validate_against_schema"
    /\ \E r \in {validate_against_schema(Request, call.schema, call.data)} : Return(r)
    /\ UNCHANGED <<heap, schema_built>>

ValidateAgainstSchemaOld ==
    /\ pc = "start" /\ call.op = "validate_against_schema_old"
    /\ \E r \in {validate_against_schema_old(Request, call.schema, call.data)} : Return(r)
    /\ UNCHANGED <<heap, schema_built>>

PostSerialize ==
    /\ pc = "start" /\ call.op = "post_serialize"
    /\ Return([Request EXCEPT !.data_clean = post_serialize(call.data)])
    /\ UNCHANGED <<heap, schema_built>>

\* RecordValidator(definition), and again on the same Definition object
BuildRecordValidator ==
    /\ call.op = "RecordValidator" /\ pc \in {"start", "built"} /\ fault = "none"
    /\ \E r \in {RecordValidator(heap)} :
           /\ heap' = r.definition
           /\ fault' = r.fault
           /\ schema_built' = IF r.fault = "none" THEN r.schema ELSE schema_built
    /\ pc' = IF pc = "start" THEN "built" ELSE "done"
    /\ UNCHANGED <<call, errors, status, data_clean, validated>>

Next ==
    \/ DefinitionValidatorCall
    \/ RecordValidatorCall
    \/ PolicyValidatorCall
    \/ ModelValidatorCall
    \/ ValidateAgainstSchema
    \/ ValidateAgainstSchemaOld
    \/ PostSerialize
    \/ BuildRecordValidator

Spec == Init /\ [][Next]_vars


(***************************************************************************)
(* Properties.                                                             *)
(***************************************************************************)
Done(op) == pc = "done" /\ call.op = op
SchemaCall == pc = "done"
              /\ call.op \in {"validate_against_schema",
                              "validate_against_schema_old"}
ErrorsOn(k) == Cardinality({i \in DOMAIN errors : errors[i].field = k})
ErrorSet == {errors[i] : i \in DOMAIN errors}
Declared(schema) == {schema.children[i].name : i \in DOMAIN schema.children}

\* a record checked against a record schema: directly, or by record_validator
\* for a stored model
RecordSchemas == {RecordValidator(d).schema : d \in RecordDefinitions}
RecordSchemaOf == IF call.op = "record_validator"
                  THEN RecordValidator(ValidDefinition).schema ELSE call.schema
RecordOf == IF call.op # "record_validator" THEN call.data
            ELSE IF call.body.kind = "empty" THEN EmptyMap ELSE call.body.doc
IsRecordCase ==
    /\ \/ SchemaCall /\ call.schema \in RecordSchemas
       \/ Done("record_validator") /\ call.model_id \in KnownModels
          /\ call.body.kind # "malformed"
    /\ RecordOf.t = "map"
\* a value every field of that type takes as it is
PlainValue(typ, v) == IF typ = "Int" THEN v.t = "int"
                      ELSE v.t = "str" /\ Len(v.s) > 0
AllDeclaredPlain(schema, record) ==
    \A i \in DOMAIN schema.children :
        /\ schema.children[i].name \in Keys(record)
        /\ PlainValue(schema.children[i].typ, record.m[schema.children[i].name])

\* C1 as stated: the record's key set must equal the declared field names:
\* one error per undeclared key, one per missing declared field, none for a
\* record with exactly the declared keys and valid values.
C1_ExactKeySet ==
    IsRecordCase =>
        /\ \A k \in Keys(RecordOf) \ Declared(RecordSchemaOf) : ErrorsOn(k) = 1
        /\ \A k \in Declared(RecordSchemaOf) \ Keys(RecordOf) : ErrorsOn(k) = 1
        /\ (Keys(RecordOf) = Declared(RecordSchemaOf)
            /\ AllDeclaredPlain(RecordSchemaOf, RecordOf)) => errors = <<>>

\* C1 amended: every declared field must be present (one error, on its name,
\* for each that is absent); a key that is not a declared field is ignored:
\* no error is attributed to it and it is left out of the clean document; a
\* record holding the declared keys with valid values yields no error and a
\* clean document with exactly the declared keys.
C1_DeclaredRequiredExtraIgnored ==
    IsRecordCase =>
        /\ \A k \in Declared(RecordSchemaOf) \ Keys(RecordOf) : ErrorsOn(k) = 1
        /\ \A k \in Keys(RecordOf) \ Declared(RecordSchemaOf) : ErrorsOn(k) = 0
        /\ AllDeclaredPlain(RecordSchemaOf, RecordOf) =>
              /\ errors = <<>>
              /\ data_clean # Unset
              /\ Keys(data_clean) = Declared(RecordSchemaOf)

C1_Witness ==
    /\ IsRecordCase
    /\ "extra" \in Keys(RecordOf)
    /\ AllDeclaredPlain(RecordSchemaOf, RecordOf)
    /\ errors = <<>>
    /\ data_clean # Unset
    /\ "extra" \notin Keys(data_clean)

\* C2 as stated: one call of validate_against_schema on a fresh request ends
\* either Clean (data_clean set, no error) or Invalid (at least one error,
\* data_clean not set), never both and never neither.
C2_CleanXorInvalid ==
    SchemaCall =>
        (data_clean # Unset /\ errors = <<>>) # (errors # <<>> /\ data_clean = Unset)

\* the body of a model_validator call that parsed to a mapping
ModelDoc == call.body.doc
IsModelCase == Done("model_validator") /\ call.body.kind = "json"
               /\ ModelDoc.t = "map"
PolicyIdOf(doc) == Get(doc, "policy_id", Word(default_policy))
PolicyMissing(doc) ==
    ~(PolicyIdOf(doc).t = "str" /\ TextOf(PolicyIdOf(doc)) \in KnownPolicies)
HasError(location, field) ==
    \E i \in DOMAIN errors : errors[i].location = location /\ errors[i].field = field

\* C3 as stated, for a body without a definition and with a policy_id that
\* does not exist, with or without data records: the call returns normally
\* and its errors hold one for the definition and, after it, one for
\* policy_id.
C3_AccumulatesAcrossSubDocuments ==
    (IsModelCase /\ "definition" \notin Keys(ModelDoc) /\ PolicyMissing(ModelDoc)) =>
        /\ fault = "none"
        /\ \E i, j \in DOMAIN errors :
              /\ i < j
              /\ errors[i].field = "definition"
              /\ errors[j].field = "policy_id"

\* the leaves of an Invalid tree: (dotted path, message) of each node without
\* children
RECURSIVE LeavesUnder(_, _)
LeavesUnder(exc, prefix) ==
    LET path == IF prefix = "" THEN exc.key
                ELSE IF exc.key = "" THEN prefix ELSE prefix \o "." \o exc.key
    IN  IF exc.children = <<>>
        THEN {[location |-> "body", field |-> path, message |-> exc.msg]}
        ELSE UNION {LeavesUnder(exc.children[i], path) : i \in DOMAIN exc.children}
Outcome == SchemaNode_deserialize(call.schema, call.data)
FieldViolations == ~Outcome.ok /\ Outcome.exc.children # <<>>
\* the positions of the admins that are no text (empty, null, 0)
EmptyAdmins(roles) == {i \in DOMAIN roles.m["admins"].l :
                          Falsy(roles.m["admins"].l[i])}

\* C4: when a document violates its schema in its fields, one call of
\* validate_against_schema adds exactly one error per violating leaf field,
\* located 'body', with the leaf's dotted path as field and the leaf's
\* message; none is dropped, and a violation inside a sequence is addressed
\* by the path of the failing element (admins.<position>).
C4_OneErrorPerViolatingLeaf ==
    (SchemaCall /\ FieldViolations) =>
        /\ ErrorSet = LeavesUnder(Outcome.exc, "")
        /\ Len(errors) = Cardinality(LeavesUnder(Outcome.exc, ""))
        /\ data_clean = Unset
        /\ (call.schema = RolesValidator
            /\ "admins" \in Keys(call.data)
            /\ call.data.m["admins"].t = "list"
            /\ EmptyAdmins(call.data) # {}) =>
                {errors[i].field : i \in DOMAIN errors}
                    = {"admins." \o PosText[p] : p \in EmptyAdmins(call.data)}

C4_Witness ==
    /\ SchemaCall /\ FieldViolations
    /\ call.schema = RolesValidator
    /\ Len(errors) = 2
    /\ errors[1].field = "admins.0" /\ errors[1].message = "Required"
    /\ errors[2].field = "admins.1" /\ errors[2].location = "body"

\* C5 as stated: in every entry point that reads the body, a body that is no
\* JSON ends in exactly one error, located 'body'; the call returns normally
\* and sets neither data_clean nor a validated entry.
C5_MalformedBodyOneError ==
    (pc = "done" /\ call.body.kind = "malformed"
     /\ \/ call.op \in {"definition_validator", "policy_validator", "model_validator"}
        \/ call.op = "record_validator" /\ call.model_id \in KnownModels) =>
        /\ fault = "none"
        /\ Len(errors) = 1
        /\ errors[1].location = "body"
        /\ data_clean = Unset
        /\ validated = <<>>

UnknownModelCase == Done("record_validator") /\ call.model_id \notin KnownModels
MissingPolicyCase == IsModelCase /\ fault = "none" /\ PolicyMissing(ModelDoc)

IsPolicyCase == Done("policy_validator") /\ call.body.kind = "json"
                /\ call.body.doc.t = "map"
PolicyDoc == call.body.doc
\* an integer of [0, 65535]; a JSON boolean counts as the integer 0 or 1
IsIntegerInRange(v) == \/ v.t = "int" /\ v.i >= 0 /\ v.i <= PolicyMax
                       \/ v.t = "bool"
\* text that reads as a decimal integer, with its value
IsNumeral(s) == LET digits == IF Len(s) > 0 /\ Head(s) \in {"-", "+"}
                              THEN Tail(s) ELSE s
                IN  Len(digits) > 0 /\ \A i \in DOMAIN digits : IsDigit(digits[i])
NumeralValue(s) == IF Head(s) = "-" THEN -DigitsValue(Tail(s), 0)
                   ELSE IF Head(s) = "+" THEN DigitsValue(Tail(s), 0)
                   ELSE DigitsValue(s, 0)
\* the values Python's int() turns into an integer of [0, 65535]
ConvertsInRange(v) ==
    \/ IsIntegerInRange(v)
    \/ v.t = "float" /\ v.tenths > -10 /\ v.tenths < (PolicyMax + 1) * 10
    \/ v.t = "str" /\ IsNumeral(v.s)
       /\ NumeralValue(v.s) >= 0 /\ NumeralValue(v.s) <= PolicyMax

\* C7 as stated: policy_validator adds exactly one error for each key whose
\* value is not an integer in [0, 65535] and none for any other key, and {}
\* is clean.
C7_ErrorIffNotIntegerInRange ==
    IsPolicyCase =>
        /\ \A k \in Keys(PolicyDoc) :
              ErrorsOn(k) = IF IsIntegerInRange(PolicyDoc.m[k]) THEN 0 ELSE 1
        /\ PolicyDoc = EmptyMap => errors = <<>> /\ data_clean = EmptyMap

\* C7 amended: policy_validator adds exactly one error, located 'body', for
\* each key whose value int() does not convert to an integer in [0, 65535]
\* (null, empty or non-numeric text, a sequence, a number out of range) and
\* none for a key whose value converts (an integer, a boolean, a number with
\* a fraction, numeric text); every error is on a key of the document; a
\* document without errors is clean with the same keys and the converted
\* integers, and {} is clean with an empty clean document.
C7_ErrorIffNotConvertible ==
    IsPolicyCase =>
        /\ fault = "none"
        /\ \A k \in Keys(PolicyDoc) :
              ErrorsOn(k) = IF ConvertsInRange(PolicyDoc.m[k]) THEN 0 ELSE 1
        /\ \A i \in DOMAIN errors :
              errors[i].location = "body" /\ errors[i].field \in Keys(PolicyDoc)
        /\ (\A k \in Keys(PolicyDoc) : ConvertsInRange(PolicyDoc.m[k])) =>
              /\ data_clean # Unset
              /\ Keys(data_clean) = Keys(PolicyDoc)
              /\ \A k \in Keys(PolicyDoc) :
                    data_clean.m[k].t = "int" /\ IsIntegerInRange(data_clean.m[k])
        /\ PolicyDoc = EmptyMap => errors = <<>> /\ data_clean = EmptyMap
        /\ validated = [k \in {"policy"} |-> PolicyDoc]

C7_Witness ==
    /\ IsPolicyCase
    /\ Keys(PolicyDoc) = {"read", "write"}
    /\ PolicyDoc.m["read"] = VStr(<<"1", "2">>)
    /\ PolicyDoc.m["write"] = VInt(999999)
    /\ Len(errors) = 1 /\ errors[1].field = "write"

\* a roles document checked with RolesValidator
IsRolesCase == SchemaCall /\ call.schema = RolesValidator /\ call.data.t = "map"
AdminsOf(roles) == Get(roles, "admins", Unset)
NoAdmins(roles) == AdminsOf(roles) = Unset \/ AdminsOf(roles) = VList(<<>>)
TextAdmins(roles) ==
    /\ AdminsOf(roles).t = "list"
    /\ AdminsOf(roles).l # <<>>
    /\ \A i \in DOMAIN AdminsOf(roles).l : AdminsOf(roles).l[i].t = "str"
NamedAdmins(roles) ==
    /\ TextAdmins(roles)
    /\ \A i \in DOMAIN AdminsOf(roles).l : Len(AdminsOf(roles).l[i].s) > 0
OneErrorOnAdmins == Len(errors) = 1 /\ errors[1].field = "admins"
                    /\ errors[1].location = "body"
RolesKept(roles) == errors = <<>> /\ data_clean = roles

\* C8 as stated: roles validation fails with exactly one error on 'admins'
\* when admins is absent or empty, and succeeds, keeping every other key and
\* every admin, whenever admins is a non-empty sequence of strings.
C8_RolesAnyStrings ==
    IsRolesCase =>
        /\ NoAdmins(call.data) => OneErrorOnAdmins
        /\ TextAdmins(call.data) => RolesKept(call.data)

\* C8 amended: roles validation fails with exactly one error on 'admins'
\* when admins is absent or empty, and succeeds whenever admins is a
\* non-empty sequence of non-empty strings, whatever other keys the document
\* has; on success the clean document is the roles document: every other key
\* with its value, every admin in place.  model_validator records the roles
\* document it checked, the submitted one or the default, as validated roles.
C8_RolesNamedAdmins ==
    /\ IsRolesCase =>
          /\ NoAdmins(call.data) => OneErrorOnAdmins /\ data_clean = Unset
          /\ NamedAdmins(call.data) => RolesKept(call.data)
    /\ (IsModelCase /\ fault = "none") =>
          /\ "roles" \in DOMAIN validated
          /\ "roles" \in Keys(ModelDoc) => validated["roles"] = ModelDoc.m["roles"]
          /\ "roles" \notin Keys(ModelDoc) =>
                /\ NamedAdmins(validated["roles"])
                /\ data_clean = validated["roles"]
          /\ (validated["roles"].t = "map" /\ NamedAdmins(validated["roles"])) =>
                data_clean = validated["roles"]

C8_Witness ==
    /\ IsRolesCase
    /\ NamedAdmins(call.data)
    /\ "extra_key" \in Keys(call.data)
    /\ errors = <<>>
    /\ data_clean # Unset
    /\ "extra_key" \in Keys(data_clean)
    /\ data_clean.m["admins"] = call.data.m["admins"]

\* reading ISO-8601 text back: the number written at positions from..to
NumberAt(s, from, to) == DigitsValue(SubSeq(s, from, to), 0)
ParseIso(s) ==
    IF Len(s) = 10
    THEN VDate(NumberAt(s, 1, 4), NumberAt(s, 6, 7), NumberAt(s, 9, 10))
    ELSE VDateTime(NumberAt(s, 1, 4), NumberAt(s, 6, 7), NumberAt(s, 9, 10),
                   NumberAt(s, 12, 13), NumberAt(s, 15, 16), NumberAt(s, 18, 19),
                   IF Len(s) > 19 THEN NumberAt(s, 21, 26) ELSE 0)
IsoShaped(s) ==
    /\ Len(s) \in {10, 19, 26}
    /\ s[5] = "-" /\ s[8] = "-"
    /\ Len(s) > 10 => s[11] = "T" /\ s[14] = ":" /\ s[17] = ":"
    /\ Len(s) > 19 => s[20] = "."
IsDateValue(v) == v.t \in {"date", "datetime"}

\* C9: the clean document is the engine-agnostic form of the deserialized
\* one: a date or date/time value is replaced by its ISO-8601 text, a key
\* whose value is the no-value sentinel is absent (not null), every other
\* key keeps its value, and no key is added; the clean document of a
\* successful validate_against_schema holds no sentinel and no date.
C9_CleanIsAgnostic ==
    /\ Done("post_serialize") =>
          /\ data_clean.t = "map"
          /\ Keys(data_clean) = {k \in Keys(call.data) : call.data.m[k] # null}
          /\ \A k \in Keys(data_clean) :
                IF IsDateValue(call.data.m[k])
                THEN /\ data_clean.m[k].t = "str"
                     /\ IsoShaped(data_clean.m[k].s)
                     /\ ParseIso(data_clean.m[k].s) = call.data.m[k]
                ELSE data_clean.m[k] = call.data.m[k]
    /\ (Done("validate_against_schema") /\ data_clean # Unset) =>
          /\ errors = <<>>
          /\ Outcome.ok
          /\ Keys(data_clean) = {k \in Keys(Outcome.val) : Outcome.val.m[k] # null}
          /\ \A k \in Keys(data_clean) :
                data_clean.m[k] # null /\ ~IsDateValue(data_clean.m[k])

C9_Witness ==
    /\ Done("post_serialize")
    /\ Keys(call.data) = {"when", "age", "nick"}
    /\ call.data.m["when"].t = "datetime" /\ call.data.m["when"].us # 0
    /\ call.data.m["age"] = null
    /\ call.data.m["nick"] = None
    /\ Keys(data_clean) = {"when", "nick"}
    /\ data_clean.m["nick"] = None

\* C10 as stated: building a record schema from a Definition leaves the
\* Definition unchanged (every field descriptor keeps its type), so that it
\* can be used to build the schema again, with the same result.
C10_DefinitionUnchanged ==
    (call.op = "RecordValidator" /\ pc \in {"built", "done"}) =>
        (schema_built # Unset => heap = call.data /\ fault = "none")


====
